---- MODULE Spec2Model ----
(***************************************************************************)
(* Model of the timing-residual post-processing of meerpipe                *)
(* (src/meerwatch_tools.py): get_res_fromtim and the helpers it calls.     *)
(*                                                                         *)
(* Numbers.  Residual phases (numpy f4, cycles) are fixed-point integers   *)
(* in units of 1/One cycle, so that 0.5 is Half and 1.0 is One.  Time      *)
(* residuals, uncertainties and phase errors are extended rationals        *)
(* <<n, d>> with d >= 0 in lowest terms: <<n, 0>> is +inf (n = 1), -inf    *)
(* (n = -1) or NaN (n = 0), which is what numpy scalar and array division  *)
(* yield on a zero divisor (a RuntimeWarning, no exception).  Arithmetic   *)
(* is exact: float rounding and the sign of zero are not modelled.         *)
(*                                                                         *)
(* Arrays.  A numpy array is [nd, rows]: nd = 1 for a one-dimensional      *)
(* array of len(rows) records, nd = 0 for the zero-dimensional array that  *)
(* np.loadtxt returns for a file of exactly one row (loadtxt squeezes      *)
(* axes of length one); size of a 0-d array is 1 and len() of it raises    *)
(* TypeError.                                                              *)
(***************************************************************************)
EXTENDS Integers, Sequences, FiniteSets, TLC

VARIABLES
  tim_arg,    \* argument tim_file of get_res_fromtim, as the caller passed it
  out_dir,    \* argument out_dir of get_res_fromtim
  align,      \* argument align of get_res_fromtim
  fit_env,    \* what the external tools do in this call (see FitEnvs)
  fake_phase, \* the residual phase the fitter reports for the synthetic TOA
  fs,         \* the file system: path -> [exists, fmt, lines]
  tim_file,   \* local tim_file (re-bound to the alignment copy at line 106)
  pc,         \* position in get_res_fromtim
  toas,       \* local toas
  toas_exp,   \* local toas_exp
  bflag,      \* local bflag
  ret,        \* the returned array, once pc = "returned"
  exc,        \* the exception that ended the call, once pc = "raised"
  rt_in,      \* rotate_toas: the array as passed in
  rt_offset,  \* rotate_toas: argument phase_offset
  rt_toas,    \* rotate_toas: the array, modified in place
  rt_pc,      \* rotate_toas: "call" before, "done" after
  rt_errphase, \* calc_err_phase of the array as passed in, once computed
  st_fn,      \* clean_toas / weighted_mean / weighted_rms: the function called
  st_in,      \* its argument array
  st_factor,  \* clean_toas: argument outlier_factor
  st_out,     \* its result
  st_pc,      \* "call" before, "done" after, "raised" on an exception
  db_flag,    \* slurm_pipe: config_params["db_flag"]
  fluxcal,    \* slurm_pipe: config_params["fluxcal"]
  fail_at,    \* slurm_pipe: index of the stage that raises in this run, 0 for none
  summary_ok, \* slurm_pipe: what check_summary returns in this run
  db_state,   \* slurm_pipe: the job state stored in the database
  sp_pc,      \* slurm_pipe: position in the script
  crash,      \* slurm_pipe: variable crash
  ran,        \* slurm_pipe: the stages called so far, in order
  updates,    \* slurm_pipe: the job states passed to update_processing, in order
  seen_state, \* slurm_pipe: the last value get_job_state returned
  durations,  \* get_outputinfo: target_duration of each observation, in loop order
  rm_i,       \* get_outputinfo: index of the observation being processed
  reqram,     \* get_outputinfo: local reqram
  required_ram_list, \* get_outputinfo: local required_ram_list
  rm_pc       \* get_outputinfo: "loop", "done" or "raised"

grVars == <<align, fit_env, fake_phase, fs, tim_file, pc, toas, toas_exp, bflag, ret, exc>>
rtVars == <<rt_in, rt_offset, rt_toas, rt_pc, rt_errphase>>
stVars == <<st_fn, st_in, st_factor, st_out, st_pc>>
spVars == <<db_flag, fluxcal, fail_at, summary_ok, db_state, sp_pc, crash, ran, updates,
            seen_state>>
rmVars == <<durations, rm_i, reqram, required_ram_list, rm_pc>>
argVars == <<tim_arg, out_dir>>

vars == <<argVars, grVars, rtVars, stVars, spVars, rmVars>>

----------------------------------------------------------------------------
(* Bounds and fixed-point constants *)

MaxToas == 2        \* TOA lines in the caller's tim file: 0..MaxToas
MaxPhase == 5       \* |phase| of a fitted row, |offset| of the marker <= MaxPhase
MaxLen == 1         \* records in the array handed to rotate_toas directly

One == 10           \* the literal 1.0 in fixed-point phase units
Half == 5           \* the literal 0.5 in fixed-point phase units

----------------------------------------------------------------------------
(* Extended rationals *)

Abs(n) == IF n < 0 THEN -n ELSE n
Sign(n) == IF n < 0 THEN -1 ELSE IF n > 0 THEN 1 ELSE 0

RECURSIVE GCD(_, _)
GCD(a, b) == IF b = 0 THEN a ELSE GCD(b, a % b)

Norm(n, d) ==
  IF d = 0 THEN <<Sign(n), 0>>
  ELSE LET g == GCD(Abs(n), Abs(d))
       IN  <<(Sign(d) * n) \div g, Abs(d) \div g>>

NaN == <<0, 0>>
IsNaN(a) == a = NaN
\* a fixed-point phase as a rational number of cycles
PhaseRat(p) == Norm(p, One)

DivZeroGivesZero(a, b) ==
  IF IsNaN(a) \/ IsNaN(b) THEN NaN
  ELSE IF b[1] = 0 /\ b[2] # 0 THEN <<0, 1>>
  ELSE Norm(a[1] * (IF b[1] < 0 THEN -b[2] ELSE b[2]), a[2] * Abs(b[1]))

Mul(a, b) == IF IsNaN(a) \/ IsNaN(b) THEN NaN ELSE Norm(a[1] * b[1], a[2] * b[2])
Inv(a) == IF a[1] < 0 THEN <<-a[2], -a[1]>> ELSE <<a[2], a[1]>>
Div(a, b) == IF IsNaN(a) \/ IsNaN(b) THEN NaN
             ELSE LET i == Inv(b) IN Norm(a[1] * i[1], a[2] * i[2])

----------------------------------------------------------------------------
(* numpy arrays *)

Arr1(rows) == [nd |-> 1, rows |-> rows]
Arr0(row) == [nd |-> 0, rows |-> <<row>>]
EmptyArr == Arr1(<<>>)                 \* np.array([])
Size(a) == Len(a.rows)                 \* ndarray.size
LenRaises(a) == a.nd = 0               \* len() of unsized object

----------------------------------------------------------------------------
(* rotate_toas, lines 259-282 *)

WrapLowOpen(d) ==
  IF d > Half THEN d - One
  ELSE IF d < -Half THEN d + One
  ELSE d

\* lines 268-272: one conditional subtraction or addition of 1.0
WrapPhase(d) ==
  IF d > Half THEN d - One
  ELSE IF d <= -Half THEN d + One
  ELSE d

RotateRowAdds(r, phase_offset) ==
  LET new_res_phase == WrapPhase(r.res_phase + phase_offset)
      new_res == Mul(Div(PhaseRat(new_res_phase), PhaseRat(r.res_phase)), r.res)
  IN  [r EXCEPT !.res_phase = new_res_phase, !.res = new_res]

\* lines 268-279, the body of the loop for one record
RotateRow(r, phase_offset) ==
  LET new_res_phase == WrapPhase(r.res_phase - phase_offset)
      new_res == Mul(Div(PhaseRat(new_res_phase), PhaseRat(r.res_phase)), r.res)
  IN  [r EXCEPT !.res_phase = new_res_phase, !.res = new_res]

\* the loop of line 265 from index x on; phase_offset is a scalar passed by value
RECURSIVE RotateFrom(_, _, _)
RotateFrom(rows, phase_offset, x) ==
  IF x > Len(rows) THEN rows
  ELSE RotateFrom([rows EXCEPT ![x] = RotateRow(rows[x], phase_offset)],
                  phase_offset, x + 1)

RotateToas(rows, phase_offset) == RotateFrom(rows, phase_offset, 1)

----------------------------------------------------------------------------
(* Paths and files.  A path is [dir, base], base a sequence of name tokens; *)
(* a file is [exists, fmt, lines].                                          *)

Join(dir, base) == [dir |-> dir, base |-> base]
Basename(p) == p.base
\* str.replace: every occurrence of token old becomes new
Replace(base, old, new) ==
  [i \in 1..Len(base) |-> IF base[i] = old THEN new ELSE base[i]]

\* the arguments tim_file and out_dir of the call modelled in full
TimArg == Join("obs", <<"J0437", ".tim">>)
OutDir == "out"

fake_str == "ALIGNFAKE"                                         \* line 88
TempFile == Join(out_dir, Replace(Basename(tim_arg), ".tim", ".delme"))        \* 71, 74
ResFile == Join(out_dir, Replace(Basename(tim_arg), ".tim", "_res.txt"))       \* 72, 75
CompFile == Join(out_dir, Replace(Basename(tim_arg), ".tim", "_res_comp.txt")) \* 73, 76
NewTimFile == [tim_arg EXCEPT !.base = Append(@, fake_str)]                   \* 90

Paths == {tim_arg, NewTimFile, TempFile, ResFile, CompFile}

Absent == [exists |-> FALSE, fmt |-> <<>>, lines |-> <<>>]
File(fmt, lines) == [exists |-> TRUE, fmt |-> fmt, lines |-> lines]

\* line 89: the synthetic TOA line appended to the copy
fake_toa == [name |-> fake_str, freq |-> 1284, mjd |-> 57754, err |-> 10]
\* line 131: fake_str in tim_file
HasFakeStr(p) == \E i \in 1..Len(p.base) : p.base[i] = fake_str

----------------------------------------------------------------------------
(* Inputs *)

\* phases a fitted row can carry: the fixed-point values of (-0.5, 0.5] when
\* MaxPhase = Half
FitPhases == (1 - MaxPhase)..MaxPhase

\* a TOA line of the caller's tim file; ph is the residual phase the fitter
\* will report for it
RealToa(i, ph) == [name |-> "toa", freq |-> 1284, mjd |-> 58000 + i, err |-> 1, ph |-> ph]

TimContents ==
  UNION {{[i \in 1..n |-> RealToa(i, f[i])] : f \in [1..n -> FitPhases]} : n \in 0..MaxToas}

\* "ok": the fitter emits one row per TOA line, in file order
\* "norows": the fitter runs and emits no matching row (it failed on its input)
\* "nolaunch": the fitter executable cannot be started, Popen raises
\* "noout": out_dir is not writable, open(temp_file, 'w') raises
FitEnvs == {"ok", "norows", "nolaunch", "noout"}

\* pulse period in seconds: post = post_phase * period
PulsePeriod == <<1, 200>>

----------------------------------------------------------------------------
(* Helpers of get_res_fromtim *)

DAYPERYEAR4 == 1461   \* DAYPERYEAR = 365.25 in quarter days

\* calc_doy: jyear = 2000 + (mjd - 51544.5) / 365.25; DAYPERYEAR * (jyear % 1)
calc_doy(mjd) == Norm((4 * mjd - 206178) % DAYPERYEAR4, 4)

\* calc_err_phase, line 255
calc_err_phase(res, err, res_phase) == Mul(Div(PhaseRat(res_phase), res), err)

\* read_par is neither defined nor imported in meerwatch_tools.py: line 162
\* raises NameError, which the bare except of line 163 catches
ReadParRaises == TRUE
\* binary_tools.is_binary / get_binphase (not part of src/)
is_binary(pars) == "PB" \in pars
get_binphase(mjd, pars) == <<"binphase", mjd>>

\* the row tempo2 + grep + awk emit for one TOA line (lines 66-69, 117-122)
FitRow(toa, fph) ==
  LET ph == IF toa.name = fake_str THEN fph ELSE toa.ph
  IN  [mjd |-> toa.mjd, res |-> Mul(PhaseRat(ph), PulsePeriod),
       err |-> Norm(toa.err, 1000000), freq |-> toa.freq, res_phase |-> ph]

\* np.loadtxt, line 147: no row -> empty 1-d array, one row -> 0-d array
LoadTxt(lines) ==
  IF Len(lines) = 1 THEN Arr0(lines[1]) ELSE Arr1(lines)

\* lines 173-177
DtypeList(b) ==
  <<"mjd", "doy", "res", "res_phase", "err", "err_phase", "freq">>
    \o (IF b THEN <<"binphase">> ELSE <<>>)

\* lines 153-157, 169-170, 179-182: one record of toas_exp
ExpRow(r, b) ==
  LET base == [mjd |-> r.mjd, doy |-> calc_doy(r.mjd), res |-> r.res,
               res_phase |-> r.res_phase, err |-> r.err,
               err_phase |-> calc_err_phase(r.res, r.err, r.res_phase),
               freq |-> r.freq]
  IN  IF b THEN [f \in DOMAIN base \cup {"binphase"} |->
                   IF f = "binphase" THEN get_binphase(r.mjd, {"PB"}) ELSE base[f]]
      ELSE base

raw_str(b) == [c \in 1..Len(DtypeList(b)) |-> "%s"]                 \* 227, 230
comp_str(b) ==                                                      \* 228, 231
  <<"%12.6f", "%9.6f", "%.4e", "%.4e", "%.2e", "%.2e", "%9.4f">>
    \o (IF b THEN <<"%.8e">> ELSE <<>>)
default_fmt(b) ==                                                   \* 221
  [c \in 1..Len(DtypeList(b)) |-> "%.18e"]

\* np.savetxt: one line per record, one column per field in dtype order
SaveTxt(a, b, fmt) ==
  File(fmt, [i \in 1..Len(a.rows) |->
               [c \in 1..Len(DtypeList(b)) |-> a.rows[i][DtypeList(b)[c]]]])

----------------------------------------------------------------------------
(* get_res_fromtim, lines 54-242, as a sequence of steps *)

Raise(e) ==
  /\ pc' = "raised"
  /\ exc' = e

\* lines 62-109: names of the products; with align, the copy of the tim file
\* with the synthetic TOA appended, and tim_file re-bound to it
Prepare ==
  /\ pc = "start"
  /\ IF align
       THEN /\ fs' = [fs EXCEPT ![NewTimFile] =
                        File(<<>>, Append(fs[tim_file].lines, fake_toa))]
            /\ tim_file' = NewTimFile
       ELSE UNCHANGED <<fs, tim_file>>
  /\ pc' = "fit"
  /\ UNCHANGED <<align, fit_env, fake_phase, toas, toas_exp, bflag, ret, exc>>

\* line 112: open(temp_file, 'w') raises, nothing after it runs
FitOpenFails ==
  /\ pc = "fit"
  /\ fit_env = "noout"
  /\ Raise("OSError")
  /\ UNCHANGED <<align, fit_env, fake_phase, fs, tim_file, toas, toas_exp, bflag, ret>>

\* lines 112-117: temp_file is created, then Popen raises: the with block
\* closes the file and the exception leaves the function
FitLaunchFails ==
  /\ pc = "fit"
  /\ fit_env = "nolaunch"
  /\ fs' = [fs EXCEPT ![TempFile] = File(<<>>, <<>>)]
  /\ Raise("FileNotFoundError")
  /\ UNCHANGED <<align, fit_env, fake_phase, tim_file, toas, toas_exp, bflag, ret>>

\* lines 112-124: temp_file is opened for writing, which empties it, then
\* the fitter runs on tim_file; its matching rows, reshaped by awk, are
\* written to temp_file.  A fitter that fails emits no row and its exit
\* status is not looked at.
FitRuns ==
  /\ pc = "fit"
  /\ fit_env \in {"ok", "norows"}
  /\ LET opened == [fs EXCEPT ![TempFile] = File(<<>>, <<>>)]
         in == opened[tim_file].lines
         out == IF fit_env = "ok"
                  THEN [i \in 1..Len(in) |-> FitRow(in[i], fake_phase)]
                  ELSE <<>>
     IN  fs' = [fs EXCEPT ![TempFile] = File(<<>>, out)]
  /\ pc' = "cleanup"
  /\ UNCHANGED <<align, fit_env, fake_phase, tim_file, toas, toas_exp, bflag, ret, exc>>

\* lines 129-134
Cleanup ==
  /\ pc = "cleanup"
  /\ IF align /\ HasFakeStr(tim_file)
       THEN fs' = [fs EXCEPT ![tim_file] = Absent]
       ELSE UNCHANGED fs
  /\ pc' = "load"
  /\ UNCHANGED <<align, fit_env, fake_phase, tim_file, toas, toas_exp, bflag, ret, exc>>

\* lines 146-148
Load ==
  /\ pc = "load"
  /\ toas' = LoadTxt(fs[TempFile].lines)
  /\ fs' = [fs EXCEPT ![TempFile] = Absent]
  /\ pc' = "derive"
  /\ UNCHANGED <<align, fit_env, fake_phase, tim_file, toas_exp, bflag, ret, exc>>

DeriveParUncaught ==
  /\ pc = "derive"
  /\ IF LenRaises(toas)
       THEN /\ Raise("TypeError")
            /\ UNCHANGED <<toas_exp, bflag>>
       ELSE IF ReadParRaises
         THEN /\ Raise("NameError")
              /\ UNCHANGED <<toas_exp, bflag>>
         ELSE /\ bflag' = is_binary({"PB"})
              /\ toas_exp' = [nd |-> toas.nd,
                              rows |-> [i \in 1..Len(toas.rows) |->
                                          ExpRow(toas.rows[i], bflag')]]
              /\ pc' = "align"
              /\ UNCHANGED exc
  /\ UNCHANGED <<align, fit_env, fake_phase, fs, tim_file, toas, ret>>

\* lines 152-182: day of year, phase error, binary phase, toas_exp.
\* len(toas) at line 153 raises TypeError for a 0-d array.
Derive ==
  /\ pc = "derive"
  /\ IF LenRaises(toas)
       THEN /\ Raise("TypeError")
            /\ UNCHANGED <<toas_exp, bflag>>
       ELSE LET b == IF ReadParRaises THEN FALSE ELSE is_binary({"PB"})
            IN  /\ bflag' = b
                /\ toas_exp' = [nd |-> toas.nd,
                                rows |-> [i \in 1..Len(toas.rows) |-> ExpRow(toas.rows[i], b)]]
                /\ pc' = "align"
                /\ UNCHANGED exc
  /\ UNCHANGED <<align, fit_env, fake_phase, fs, tim_file, toas, ret>>

AlignReadsFirst ==
  /\ pc = "align"
  /\ IF ~align
       THEN /\ pc' = "write"
            /\ UNCHANGED <<toas, exc>>
       ELSE IF Size(toas) = 1
         THEN /\ toas' = EmptyArr
              /\ pc' = "write"
              /\ UNCHANGED exc
         ELSE IF Size(toas) = 0
           THEN /\ Raise("IndexError")
                /\ UNCHANGED toas
           ELSE LET fake_index == Size(toas)
                    fake_phase_offset == toas.rows[1].res_phase
                    rotated == RotateToas(toas.rows, fake_phase_offset)
                IN  /\ toas' = Arr1(SubSeq(rotated, 1, fake_index - 1))
                    /\ pc' = "write"
                    /\ UNCHANGED exc
  /\ UNCHANGED <<align, fit_env, fake_phase, fs, tim_file, toas_exp, bflag, ret>>

\* lines 186-212: a size of 1 clears toas; otherwise the offset is read from
\* the last record (IndexError on an empty array), toas is rotated in place
\* and np.delete drops the last record from toas
Align ==
  /\ pc = "align"
  /\ IF ~align
       THEN /\ pc' = "write"
            /\ UNCHANGED <<toas, exc>>
       ELSE IF Size(toas) = 1
         THEN /\ toas' = EmptyArr
              /\ pc' = "write"
              /\ UNCHANGED exc
         ELSE IF Size(toas) = 0
           THEN /\ Raise("IndexError")
                /\ UNCHANGED toas
           ELSE LET fake_index == Size(toas)
                    fake_phase_offset == toas.rows[fake_index].res_phase
                    rotated == RotateToas(toas.rows, fake_phase_offset)
                IN  /\ toas' = Arr1(SubSeq(rotated, 1, fake_index - 1))
                    /\ pc' = "write"
                    /\ UNCHANGED exc
  /\ UNCHANGED <<align, fit_env, fake_phase, fs, tim_file, toas_exp, bflag, ret>>

WriteBlankToCompOnly ==
  /\ pc = "write"
  /\ IF LenRaises(toas_exp)
       THEN /\ Raise("TypeError")
            /\ UNCHANGED fs
       ELSE /\ IF Len(toas_exp.rows) = 0
                 THEN fs' = [fs EXCEPT ![CompFile] =
                               SaveTxt(toas_exp, bflag, default_fmt(bflag))]
                 ELSE fs' = [fs EXCEPT
                               ![ResFile] = SaveTxt(toas_exp, bflag, raw_str(bflag)),
                               ![CompFile] = SaveTxt(toas_exp, bflag, comp_str(bflag))]
            /\ pc' = "final"
            /\ UNCHANGED exc
  /\ UNCHANGED <<align, fit_env, fake_phase, tim_file, toas, toas_exp, bflag, ret>>

\* lines 215-235: an empty toas_exp is written to res_file twice, with the
\* default format; anything else goes to res_file and comp_file
Write ==
  /\ pc = "write"
  /\ IF LenRaises(toas_exp)
       THEN /\ Raise("TypeError")
            /\ UNCHANGED fs
       ELSE /\ IF Len(toas_exp.rows) = 0
                 THEN fs' = [fs EXCEPT ![ResFile] =
                               SaveTxt(toas_exp, bflag, default_fmt(bflag))]
                 ELSE fs' = [fs EXCEPT
                               ![ResFile] = SaveTxt(toas_exp, bflag, raw_str(bflag)),
                               ![CompFile] = SaveTxt(toas_exp, bflag, comp_str(bflag))]
            /\ pc' = "final"
            /\ UNCHANGED exc
  /\ UNCHANGED <<align, fit_env, fake_phase, tim_file, toas, toas_exp, bflag, ret>>

ReturnDropsLast ==
  /\ pc = "final"
  /\ toas_exp' = IF Size(toas_exp) = 1 THEN EmptyArr
                 ELSE IF align /\ Size(toas_exp) > 1
                   THEN Arr1(SubSeq(toas_exp.rows, 1, Size(toas_exp) - 1))
                   ELSE toas_exp
  /\ ret' = toas_exp'
  /\ pc' = "returned"
  /\ UNCHANGED <<align, fit_env, fake_phase, fs, tim_file, toas, bflag, exc>>

\* lines 237-242
Return ==
  /\ pc = "final"
  /\ toas_exp' = IF Size(toas_exp) = 1 THEN EmptyArr ELSE toas_exp
  /\ ret' = toas_exp'
  /\ pc' = "returned"
  /\ UNCHANGED <<align, fit_env, fake_phase, fs, tim_file, toas, bflag, exc>>

\* state of the pure-function variables while get_res_fromtim is modelled
RtIdle ==
  /\ rt_in = <<>>
  /\ rt_offset = 0
  /\ rt_toas = <<>>
  /\ rt_pc = "idle"
  /\ rt_errphase = <<>>

\* state of the variables of the statistics functions while they are not called
StIdle ==
  /\ st_fn = "none"
  /\ st_in = <<>>
  /\ st_factor = 0
  /\ st_out = <<>>
  /\ st_pc = "idle"

\* state of the variables of slurm_pipe while it is not run
SpIdle ==
  /\ db_flag = FALSE
  /\ fluxcal = FALSE
  /\ fail_at = 0
  /\ summary_ok = FALSE
  /\ db_state = 0
  /\ sp_pc = "idle"
  /\ crash = FALSE
  /\ ran = <<>>
  /\ updates = <<>>
  /\ seen_state = 0

\* state of the variables of get_outputinfo while it is not called
RmIdle ==
  /\ durations = <<>>
  /\ rm_i = 0
  /\ reqram = "unbound"
  /\ required_ram_list = <<>>
  /\ rm_pc = "idle"

\* the arguments of the call modelled in full
ArgFixed ==
  /\ tim_arg = TimArg
  /\ out_dir = OutDir

\* the call get_res_fromtim(tim_arg, par_file, out_dir=out_dir, align=align):
\* the tim file exists, none of the products does
GrInit ==
  /\ align \in BOOLEAN
  /\ fit_env \in FitEnvs
  /\ fake_phase \in (IF align THEN FitPhases ELSE {0})
  /\ \E c \in TimContents :
       fs = [p \in Paths |-> IF p = tim_arg THEN File(<<>>, c) ELSE Absent]
  /\ tim_file = tim_arg
  /\ pc = "start"
  /\ toas = EmptyArr
  /\ toas_exp = EmptyArr
  /\ bflag = FALSE
  /\ ret = EmptyArr
  /\ exc = "none"

Init == ArgFixed /\ GrInit /\ RtIdle /\ StIdle /\ SpIdle /\ RmIdle

Next ==
  \/ (Prepare /\ UNCHANGED <<argVars, rtVars, stVars, spVars, rmVars>>)
  \/ (FitOpenFails /\ UNCHANGED <<argVars, rtVars, stVars, spVars, rmVars>>)
  \/ (FitLaunchFails /\ UNCHANGED <<argVars, rtVars, stVars, spVars, rmVars>>)
  \/ (FitRuns /\ UNCHANGED <<argVars, rtVars, stVars, spVars, rmVars>>)
  \/ (Cleanup /\ UNCHANGED <<argVars, rtVars, stVars, spVars, rmVars>>)
  \/ (Load /\ UNCHANGED <<argVars, rtVars, stVars, spVars, rmVars>>)
  \/ (Derive /\ UNCHANGED <<argVars, rtVars, stVars, spVars, rmVars>>)
  \/ (Align /\ UNCHANGED <<argVars, rtVars, stVars, spVars, rmVars>>)
  \/ (Write /\ UNCHANGED <<argVars, rtVars, stVars, spVars, rmVars>>)
  \/ (Return /\ UNCHANGED <<argVars, rtVars, stVars, spVars, rmVars>>)

Spec == Init /\ [][Next]_vars

----------------------------------------------------------------------------
(* rotate_toas called on its own: the inputs are drawn in RtInit *)

\* phases and offsets handed to rotate_toas: -2 * MaxPhase .. 2 * MaxPhase,
\* so that values outside (-0.5, 0.5] such as 0.9 occur
RotPhases == (0 - 2 * MaxPhase)..(2 * MaxPhase)
RotRes == {<<0, 1>>, <<1, 1000>>, <<-1, 500>>}

RotRecord(ph, res) ==
  [mjd |-> 58001, res |-> res, err |-> <<1, 1000000>>, freq |-> 1284, res_phase |-> ph]

RotInputs ==
  UNION {{[i \in 1..n |-> RotRecord(f[i][1], f[i][2])] : f \in [1..n -> RotPhases \X RotRes]}
         : n \in 0..MaxLen}

\* rotate_toas(toas, phase_offset), lines 259-282
RotateCall ==
  /\ rt_pc = "call"
  /\ rt_toas' = RotateToas(rt_toas, rt_offset)
  /\ rt_pc' = "done"
  /\ UNCHANGED <<rt_in, rt_offset, rt_errphase>>

\* calc_err_phase(res, err, res_phase) on the columns of the array, line 157
ErrPhaseCall ==
  /\ rt_pc = "call"
  /\ rt_errphase' = [i \in 1..Len(rt_in) |->
                       calc_err_phase(rt_in[i].res, rt_in[i].err, rt_in[i].res_phase)]
  /\ rt_pc' = "err_phase"
  /\ UNCHANGED <<rt_in, rt_offset, rt_toas>>

RtInit ==
  /\ rt_in \in RotInputs
  /\ rt_offset \in RotPhases
  /\ rt_toas = rt_in
  /\ rt_pc = "call"
  /\ rt_errphase = <<>>

\* state of the get_res_fromtim variables while rotate_toas is called on its own
GrIdle ==
  /\ align = FALSE
  /\ fit_env = "ok"
  /\ fake_phase = 0
  /\ fs = [p \in Paths |-> Absent]
  /\ tim_file = tim_arg
  /\ pc = "idle"
  /\ toas = EmptyArr
  /\ toas_exp = EmptyArr
  /\ bflag = FALSE
  /\ ret = EmptyArr
  /\ exc = "none"

InitRotate == ArgFixed /\ GrIdle /\ RtInit /\ StIdle /\ SpIdle /\ RmIdle

NextRotate ==
  \/ (RotateCall /\ UNCHANGED <<argVars, grVars, stVars, spVars, rmVars>>)
  \/ (ErrPhaseCall /\ UNCHANGED <<argVars, grVars, stVars, spVars, rmVars>>)

SpecRotate == InitRotate /\ [][NextRotate]_vars

----------------------------------------------------------------------------
(* weighted_rms, weighted_mean and clean_toas called on their own *)

MaxClean == 5       \* records in the array handed to clean_toas
MaxStat == 2        \* records in the array handed to weighted_mean / weighted_rms

Add(a, b) ==
  IF IsNaN(a) \/ IsNaN(b) THEN NaN
  ELSE IF a[2] = 0 /\ b[2] = 0 THEN (IF a[1] = b[1] THEN a ELSE NaN)
  ELSE IF a[2] = 0 THEN a
  ELSE IF b[2] = 0 THEN b
  ELSE Norm(a[1] * b[2] + b[1] * a[2], a[2] * b[2])

\* np.abs
AbsR(a) == <<Abs(a[1]), a[2]>>
\* a <= b on floats: False when either is NaN
Leq(a, b) ==
  IF IsNaN(a) \/ IsNaN(b) THEN FALSE
  ELSE IF a[2] = 0 THEN a[1] = -1 \/ (b[2] = 0 /\ b[1] = 1)
  ELSE IF b[2] = 0 THEN b[1] = 1
  ELSE a[1] * b[2] <= b[1] * a[2]

\* insertion of v into the ascending sequence s
RECURSIVE Insert(_, _)
Insert(s, v) ==
  IF s = <<>> THEN <<v>>
  ELSE IF Leq(v, Head(s)) THEN <<v>> \o s
  ELSE <<Head(s)>> \o Insert(Tail(s), v)

RECURSIVE Sort(_)
Sort(s) == IF s = <<>> THEN <<>> ELSE Insert(Sort(Tail(s)), Head(s))

\* np.median: NaN for an empty array, the middle value, or the mean of the
\* two middle values
Median(s) ==
  LET n == Len(s)
      t == Sort(s)
  IN  IF n = 0 THEN NaN
      ELSE IF n % 2 = 1 THEN t[(n + 1) \div 2]
      ELSE Mul(Add(t[n \div 2], t[n \div 2 + 1]), <<1, 2>>)

CleanSigmaUnscaled(mad) == mad

\* line 288: sigma = 1.4826 * mad
CleanSigma(mad) == Mul(<<7413, 5000>>, mad)

\* np.argwhere over positions from i on: the positions where keep holds, ascending
RECURSIVE ArgWhere(_, _)
ArgWhere(keep, i) ==
  IF i > Len(keep) THEN <<>>
  ELSE (IF keep[i] THEN <<i>> ELSE <<>>) \o ArgWhere(keep, i + 1)

\* clean_toas, lines 285-293
clean_toas(input_toas, outlier_factor) ==
  LET absvals == [i \in 1..Len(input_toas) |-> AbsR(input_toas[i].res)]
      mad == Median(absvals)
      sigma == CleanSigma(mad)
      limit == Mul(<<outlier_factor, 1>>, sigma)
      indices == ArgWhere([i \in 1..Len(absvals) |-> Leq(absvals[i], limit)], 1)
  IN  [k \in 1..Len(indices) |->
         [name \in DOMAIN input_toas[indices[k]] |-> input_toas[indices[k]][name]]]

WeightUnsquared(err) == Div(<<1, 1>>, err)

\* lines 36 and 47: weight = 1.0 / err**2
Weight(err) == Div(<<1, 1>>, Mul(err, err))

\* the sums of the loops of lines 34-38 and 46-49 over records x..len(toas);
\* power is 1 for weighted_mean, 2 for weighted_rms
RECURSIVE Numerator(_, _, _)
Numerator(t, x, power) ==
  IF x > Len(t) THEN <<0, 1>>
  ELSE Add(Mul(Weight(t[x].err), IF power = 2 THEN Mul(t[x].res, t[x].res) ELSE t[x].res),
           Numerator(t, x + 1, power))

RECURSIVE Denominator(_, _)
Denominator(t, x) ==
  IF x > Len(t) THEN <<0, 1>>
  ELSE Add(Weight(t[x].err), Denominator(t, x + 1))

DivisionNeverRaises(t) == FALSE

\* lines 40 and 51: numerator / denominator raises ZeroDivisionError when the
\* loop never ran, both still being the int 0 of lines 32-33 and 44-45
DivisionRaises(t) == Len(t) = 0

\* weighted_mean, lines 43-51
weighted_mean(t) == Div(Numerator(t, 1, 1), Denominator(t, 1))
\* weighted_rms, lines 30-40: the result is the square root of the value given
weighted_rms(t) == <<"sqrt", Div(Numerator(t, 1, 2), Denominator(t, 1))>>

StatRecord(i, res, err) == [mjd |-> 58000 + i, res |-> res, err |-> err]

CleanRes == {<<-5, 1>>, <<0, 1>>, <<1, 1>>, <<4, 1>>, <<100, 1>>}
StatRes == {<<-1, 1>>, <<1, 1>>, <<3, 1>>}
StatErr == {<<1, 1>>, <<2, 1>>}

CleanInputs ==
  UNION {{[i \in 1..n |-> StatRecord(i, f[i], <<1, 1>>)] : f \in [1..n -> CleanRes]}
         : n \in 0..MaxClean}
StatInputs ==
  UNION {{[i \in 1..n |-> StatRecord(i, f[i][1], f[i][2])] : f \in [1..n -> StatRes \X StatErr]}
         : n \in 0..MaxStat}

StInit ==
  /\ st_fn \in {"clean_toas", "weighted_mean", "weighted_rms"}
  /\ st_in \in (IF st_fn = "clean_toas" THEN CleanInputs ELSE StatInputs)
  /\ st_factor \in (IF st_fn = "clean_toas" THEN {1, 3} ELSE {0})
  /\ st_out = <<>>
  /\ st_pc = "call"

CleanCall ==
  /\ st_pc = "call"
  /\ st_fn = "clean_toas"
  /\ st_out' = clean_toas(st_in, st_factor)
  /\ st_pc' = "done"
  /\ UNCHANGED <<st_fn, st_in, st_factor>>

StatCall ==
  /\ st_pc = "call"
  /\ st_fn \in {"weighted_mean", "weighted_rms"}
  /\ IF DivisionRaises(st_in)
       THEN /\ st_out' = <<"ZeroDivisionError">>
            /\ st_pc' = "raised"
       ELSE /\ st_out' = IF st_fn = "weighted_mean" THEN weighted_mean(st_in)
                         ELSE weighted_rms(st_in)
            /\ st_pc' = "done"
  /\ UNCHANGED <<st_fn, st_in, st_factor>>

InitStats == ArgFixed /\ GrIdle /\ RtIdle /\ StInit /\ SpIdle /\ RmIdle

NextStats ==
  \/ (CleanCall /\ UNCHANGED <<argVars, grVars, rtVars, spVars, rmVars>>)
  \/ (StatCall /\ UNCHANGED <<argVars, grVars, rtVars, spVars, rmVars>>)

SpecStats == InitStats /\ [][NextStats]_vars

\* the residuals of an array, as integers
ResOf(t) == [i \in 1..Len(t) |-> t[i].res[1]]

RECURSIVE SumRes(_, _, _)
SumRes(t, x, power) ==
  IF x > Len(t) THEN <<0, 1>>
  ELSE Add(IF power = 2 THEN Mul(t[x].res, t[x].res) ELSE t[x].res, SumRes(t, x + 1, power))

\* the records of t that satisfy the filter of clean_toas, in order
RECURSIVE KeptOf(_, _, _)
KeptOf(t, limit, x) ==
  IF x > Len(t) THEN <<>>
  ELSE (IF Leq(AbsR(t[x].res), limit) THEN <<t[x]>> ELSE <<>>) \o KeptOf(t, limit, x + 1)

\* C14: Outlier filter.  clean_toas returns exactly the records with
\* |residual| <= factor * 1.4826 * median(|residual|), in their original
\* order and with all fields; for residuals [1,1,1,1,100] and factor 3 these
\* are the four 1-valued records.
C14_OutlierFilter ==
  (st_fn = "clean_toas" /\ st_pc = "done") =>
    LET med == Median([i \in 1..Len(st_in) |-> AbsR(st_in[i].res)])
        limit == Mul(<<st_factor * 14826, 10000>>, med)
    IN  /\ st_out = KeptOf(st_in, limit, 1)
        /\ (ResOf(st_in) = <<1, 1, 1, 1, 100>> /\ st_factor = 3)
             => st_out = SubSeq(st_in, 1, 4)

C14_Witness ==
  /\ st_fn = "clean_toas"
  /\ st_pc = "done"
  /\ ResOf(st_in) = <<1, 1, 1, 1, 100>>
  /\ st_factor = 3
  /\ ResOf(st_out) = <<1, 1, 1, 1>>

Uniform(t) == \A i, j \in 1..Len(t) : t[i].err = t[j].err

\* C15: Weighted statistics.  With w = 1/err^2, weighted_mean is
\* sum(w*res)/sum(w) and weighted_rms is sqrt(sum(w*res^2)/sum(w)): for
\* residuals [1, 3] with uncertainties [1, 2] they are 7/5 and sqrt(13/5),
\* and for every non-empty set with uniform uncertainty they are the
\* arithmetic mean and the root-mean-square of the residuals.
C15_WeightedStatistics ==
  (st_pc = "done" /\ st_fn \in {"weighted_mean", "weighted_rms"}) =>
    LET n == <<Len(st_in), 1>>
        special == Len(st_in) = 2 /\ ResOf(st_in) = <<1, 3>>
                   /\ st_in[1].err = <<1, 1>> /\ st_in[2].err = <<2, 1>>
    IN  IF st_fn = "weighted_mean"
          THEN /\ Uniform(st_in) => st_out = Div(SumRes(st_in, 1, 1), n)
               /\ special => st_out = <<7, 5>>
          ELSE /\ Uniform(st_in) => st_out = <<"sqrt", Div(SumRes(st_in, 1, 2), n)>>
               /\ special => st_out = <<"sqrt", <<13, 5>>>>

\* two records with the same uncertainty, not 1, and different residuals
C15_Witness ==
  /\ st_pc = "done"
  /\ st_fn = "weighted_mean"
  /\ Len(st_in) = 2
  /\ st_in[1].err = <<2, 1>>
  /\ st_in[2].err = <<2, 1>>
  /\ ResOf(st_in) = <<1, 3>>
  /\ st_out = <<2, 1>>

StatEnded == st_pc \in {"done", "raised"} /\ st_fn \in {"weighted_mean", "weighted_rms"}

\* C16 as stated: weighted_mean and weighted_rms on an empty Record Set fail
\* with EmptyInputError.
C16_EmptyInputErrorStated ==
  (StatEnded /\ Len(st_in) = 0) =>
    (st_pc = "raised" /\ st_out = <<"EmptyInputError">>)

\* C16 amended: weighted_mean and weighted_rms on an empty Record Set fail
\* with an error, ZeroDivisionError; they return nothing, neither 0 nor NaN.
C16_EmptyInputFails ==
  (StatEnded /\ Len(st_in) = 0) =>
    (st_pc = "raised" /\ st_out = <<"ZeroDivisionError">>)

C16_Witness ==
  /\ st_fn = "weighted_rms"
  /\ Len(st_in) = 0
  /\ st_pc = "raised"

----------------------------------------------------------------------------
(* Properties of get_res_fromtim (specification Spec) *)

Ended == pc \in {"returned", "raised"}
\* the fitter was run and its output captured
FitRan == fit_env \in {"ok", "norows"}
\* the TOA lines of the caller's tim file
TimLines == fs[TimArg].lines
\* the number of rows the fit yields in this call
NRows == IF fit_env = "ok" THEN Len(TimLines) + (IF align THEN 1 ELSE 0) ELSE 0
\* the record of the synthetic TOA
IsMarker(r) == r.mjd = fake_toa.mjd
\* the lines np.savetxt writes for array a
Serialized(a) == SaveTxt(a, bflag, <<>>).lines

\* C1: Marker removal.  A call with align=True whose fit yields N+1 rows
\* (N >= 1), the last one the marker, returns and serializes exactly N
\* records, none of them the marker.
C1_MarkerRemoved ==
  (Ended /\ align /\ fit_env = "ok" /\ Len(TimLines) >= 1) =>
    /\ pc = "returned"
    /\ Size(ret) = Len(TimLines)
    /\ \A i \in 1..Size(ret) : ~IsMarker(ret.rows[i])
    /\ Len(fs[ResFile].lines) = Len(TimLines)
    /\ Len(fs[CompFile].lines) = Len(TimLines)

\* C2: Rotation reaches the output.  A call with align=True whose fit yields
\* more than one row returns and serializes, for every non-marker record, the
\* parsed phase minus the marker's phase, wrapped, and the residual rescaled
\* by new phase / parsed phase.
C2_RotationInOutput ==
  (Ended /\ align /\ fit_env = "ok" /\ NRows > 1) =>
    /\ pc = "returned"
    /\ fs[ResFile].lines = Serialized(ret)
    /\ \A i \in 1..Size(ret) :
         ~IsMarker(ret.rows[i]) =>
           LET parsed == FitRow(TimLines[i], fake_phase)
           IN  /\ ret.rows[i].res_phase = WrapPhase(parsed.res_phase - fake_phase)
               /\ ret.rows[i].res =
                    Mul(Div(PhaseRat(ret.rows[i].res_phase), PhaseRat(parsed.res_phase)),
                        parsed.res)

\* C3: Degenerate single row.  A call whose fit yields exactly one data row,
\* with or without align, returns an empty Record Set.
C3_SingleRowEmpty ==
  (Ended /\ FitRan /\ NRows = 1) => (pc = "returned" /\ Size(ret) = 0)

\* C4: Zero rows is not a failure.  A call whose fit yields no row does not
\* raise, for either value of align, and returns an empty Record Set.
C4_ZeroRowsNoRaise ==
  (Ended /\ FitRan /\ NRows = 0) => (pc = "returned" /\ Size(ret) = 0)

\* C5: Temporary-file cleanup.  When a call with align=True has ended, by a
\* return or by an exception, the alignment copy of the tim file is gone.
C5_CopyDeleted ==
  (Ended /\ align) => ~fs[NewTimFile].exists

\* C6: Returned set equals serialized set.  When the call returns, the
\* full-precision file holds exactly the records of the returned set, and so
\* does the compact file if it was written: nothing changed the set after
\* it was serialized.
C6_ReturnedIsSerialized ==
  pc = "returned" =>
    /\ fs[ResFile].exists
    /\ fs[ResFile].lines = Serialized(ret)
    /\ fs[CompFile].exists => fs[CompFile].lines = Serialized(ret)

\* a call with align=True that returned a non-empty set and wrote both files
C6_Witness ==
  /\ pc = "returned"
  /\ align
  /\ Size(ret) >= 2
  /\ fs[ResFile].exists
  /\ fs[CompFile].exists

\* C7: Empty set still serialized.  When the finalized Record Set is empty,
\* the full-precision file exists once the records are written, with zero
\* lines (no header, no data).
C7_EmptySetWritten ==
  (pc \in {"final", "returned"} /\ Size(toas_exp) = 0) =>
    /\ fs[ResFile].exists
    /\ fs[ResFile].lines = <<>>

\* a call that returned an empty set after writing the blank file
C7_Witness ==
  /\ pc = "returned"
  /\ NRows = 0
  /\ Size(ret) = 0
  /\ fs[ResFile].exists

\* C8: Sibling files agree.  Once a Record Set is serialized, both the
\* full-precision and the compact file exist with the same number of
\* columns, the binary-phase column being in both or in neither as bflag says.
C8_SiblingFilesAgree ==
  pc \in {"final", "returned"} =>
    /\ fs[ResFile].exists
    /\ fs[CompFile].exists
    /\ Len(fs[ResFile].fmt) = Len(fs[CompFile].fmt)
    /\ Len(fs[ResFile].fmt) = Len(DtypeList(bflag))

----------------------------------------------------------------------------
(* Properties of rotate_toas (specification SpecRotate) *)

InPhaseRange(p) == -Half < p /\ p <= Half

\* C9: Rotation wrap.  Each record's phase becomes phase - offset, less 1.0
\* if that exceeds 0.5, plus 1.0 if it is <= -0.5, applied once; for phase
\* and offset in (-0.5, 0.5] the result lies in (-0.5, 0.5].
C9_RotationWrap ==
  rt_pc = "done" =>
    \A i \in 1..Len(rt_in) :
      LET d == rt_in[i].res_phase - rt_offset
          out == rt_toas[i].res_phase
      IN  /\ out \in {d, d - One, d + One}
          /\ (d > Half) => out = d - One
          /\ (d <= -Half) => out = d + One
          /\ (InPhaseRange(rt_in[i].res_phase) /\ InPhaseRange(rt_offset))
               => InPhaseRange(out)

\* a rotation of an in-range phase by an in-range offset that lands exactly
\* on -0.5 before wrapping
C9_Witness ==
  /\ rt_pc = "done"
  /\ Len(rt_in) = 1
  /\ InPhaseRange(rt_in[1].res_phase)
  /\ InPhaseRange(rt_offset)
  /\ rt_in[1].res_phase - rt_offset = -Half
  /\ rt_toas[1].res_phase = Half

\* a record with phase 0.9 rotated by offset -0.3
C10_Case ==
  /\ rt_pc = "done"
  /\ Len(rt_in) = 1
  /\ 10 * rt_in[1].res_phase = 9 * One
  /\ 10 * rt_offset = -3 * One

\* C10 as stated: a record with phase 0.9 rotated by offset -0.3 ends with
\* phase exactly -0.4.
C10_WrapExampleStated ==
  C10_Case => 10 * rt_toas[1].res_phase = -4 * One

\* C10 amended: a record with phase 0.9 rotated by offset -0.3 ends with
\* phase 0.2 (0.9 - (-0.3) = 1.2, less 1.0), not 1.2.
C10_WrapExample ==
  C10_Case => 10 * rt_toas[1].res_phase = 2 * One

C10_Witness ==
  C10_Case /\ 10 * rt_toas[1].res_phase = 2 * One

----------------------------------------------------------------------------
(* Further properties of rotate_toas and calc_err_phase (SpecRotate) *)

IsZero(a) == a = <<0, 1>>
NonFinite(a) == a[2] = 0

\* C11: Rotation by zero is the identity.  rotate_toas with offset 0.0 leaves
\* the phase and the residual of every record with a phase in (-0.5, 0.5]
\* unchanged, a phase of 0 included.
C11_ZeroOffsetIdentity ==
  (rt_pc = "done" /\ rt_offset = 0) =>
    \A i \in 1..Len(rt_in) :
      InPhaseRange(rt_in[i].res_phase) =>
        /\ rt_toas[i].res_phase = rt_in[i].res_phase
        /\ rt_toas[i].res = rt_in[i].res

\* C12: Ratio preservation.  For every record rotate_toas rescales, phase and
\* residual stay in the same proportion: new phase * old residual equals
\* old phase * new residual, both being numbers.
C12_RatioPreserved ==
  rt_pc = "done" =>
    \A i \in 1..Len(rt_in) :
      LET lhs == Mul(PhaseRat(rt_toas[i].res_phase), rt_in[i].res)
          rhs == Mul(PhaseRat(rt_in[i].res_phase), rt_toas[i].res)
      IN  ~IsNaN(lhs) /\ ~IsNaN(rhs) /\ lhs = rhs

\* C17 as stated: for a record whose residual is exactly zero calc_err_phase
\* yields NaN; for a record whose old phase is exactly zero rotate_toas
\* yields a residual that is NaN or infinite.
C17_SingularityStated ==
  /\ rt_pc = "err_phase" =>
       \A i \in 1..Len(rt_in) : IsZero(rt_in[i].res) => IsNaN(rt_errphase[i])
  /\ rt_pc = "done" =>
       \A i \in 1..Len(rt_in) : rt_in[i].res_phase = 0 => NonFinite(rt_toas[i].res)

\* C17 amended: for a record whose residual is exactly zero calc_err_phase
\* yields NaN or an infinity, never 0 or another finite value; for a record
\* whose old phase is exactly zero rotate_toas yields a residual that is NaN
\* or an infinity, never 0.
C17_SingularityExplicit ==
  /\ rt_pc = "err_phase" =>
       \A i \in 1..Len(rt_in) : IsZero(rt_in[i].res) => NonFinite(rt_errphase[i])
  /\ rt_pc = "done" =>
       \A i \in 1..Len(rt_in) : rt_in[i].res_phase = 0 => NonFinite(rt_toas[i].res)

\* a zero residual with a positive phase: the phase error is +inf
C17_Witness ==
  /\ rt_pc = "err_phase"
  /\ Len(rt_in) = 1
  /\ IsZero(rt_in[1].res)
  /\ rt_in[1].res_phase > 0
  /\ rt_errphase[1] = <<1, 0>>

----------------------------------------------------------------------------
(* Further properties of get_res_fromtim (Spec) *)

\* C13: Single captured offset.  In alignment every record before the marker
\* is rotated by the one value the marker's phase had when the fit was
\* parsed, whatever was written to the records during the loop.
C13_SingleOffset ==
  (pc \in {"write", "final", "returned"} /\ align /\ fit_env = "ok" /\ NRows >= 2) =>
    /\ Size(toas) = Len(TimLines)
    /\ \A i \in 1..Size(toas) :
         toas.rows[i].res_phase =
           WrapPhase(FitRow(TimLines[i], fake_phase).res_phase - fake_phase)

\* two records with different phases rotated by a non-zero marker phase
C13_Witness ==
  /\ pc = "write"
  /\ align
  /\ Size(toas) = 2
  /\ fake_phase # 0
  /\ TimLines[1].ph # TimLines[2].ph
  /\ TimLines[1].ph # fake_phase

\* C18: Malformed timing-model file is non-fatal.  When parsing the
\* timing-model file fails in get_res_fromtim, the failure does not leave
\* the function: bflag stays False, the records carry the seven fields of a
\* non-binary model and no binary phase, and both files are written with
\* seven columns.
C18_ParFailureNonFatal ==
  ReadParRaises =>
    /\ exc # "NameError"
    /\ pc \in {"align", "write", "final", "returned"} =>
         /\ ~bflag
         /\ \A i \in 1..Len(toas_exp.rows) :
              DOMAIN toas_exp.rows[i] =
                {DtypeList(FALSE)[c] : c \in 1..Len(DtypeList(FALSE))}
    /\ \A f \in {ResFile, CompFile} :
         fs[f].exists => Len(fs[f].fmt) = Len(DtypeList(FALSE))

\* a call that returned records and wrote seven columns to both files
C18_Witness ==
  /\ ReadParRaises
  /\ pc = "returned"
  /\ Size(ret) >= 1
  /\ ~bflag
  /\ Len(fs[ResFile].fmt) = Len(DtypeList(FALSE))
  /\ Len(fs[CompFile].fmt) = Len(DtypeList(FALSE))
  /\ Len(fs[CompFile].lines) = Size(ret)

----------------------------------------------------------------------------
(* slurm_pipe.py: the job-state updates around the pipeline stages *)

\* db_utils.job_state_code: the stored form of state number n
job_state_code(n) == [code |-> n]

\* lines 121-161: the stages called inside the try block, in order
Stages(f) ==
  IF f THEN <<"add_archives", "mitigate_rfi">>
  ELSE <<"add_archives", "calibrate_data", "mitigate_rfi", "decimate_data",
         "dynamic_spectra", "fluxcalibrate", "cleanup", "generate_toas",
         "generate_summary", "generate_images">>

SpInit ==
  /\ db_flag \in BOOLEAN
  /\ fluxcal \in BOOLEAN
  /\ fail_at \in 0..Len(Stages(fluxcal))
  /\ summary_ok \in BOOLEAN
  /\ db_state = job_state_code(0)
  /\ sp_pc = "start"
  /\ crash = FALSE
  /\ ran = <<>>
  /\ updates = <<>>
  /\ seen_state = job_state_code(0)

\* line 63: with db_flag the script first waits for run_pipe.py
SpStart ==
  /\ sp_pc = "start"
  /\ sp_pc' = IF db_flag THEN "poll" ELSE "stages"
  /\ UNCHANGED <<db_flag, fluxcal, fail_at, summary_ok, db_state, crash, ran, updates,
                 seen_state>>

\* run_pipe.py, another process, records that the job was submitted
RunPipeFinishes ==
  /\ sp_pc = "poll"
  /\ db_state = job_state_code(0)
  /\ db_state' = job_state_code(1)
  /\ UNCHANGED <<db_flag, fluxcal, fail_at, summary_ok, sp_pc, crash, ran, updates,
                 seen_state>>

\* lines 69-79: one turn of the while loop
Poll ==
  /\ sp_pc = "poll"
  /\ seen_state' = db_state
  /\ sp_pc' = IF seen_state' = job_state_code(1) THEN "running" ELSE "poll"
  /\ UNCHANGED <<db_flag, fluxcal, fail_at, summary_ok, db_state, crash, ran, updates>>

\* lines 81-110: the update to the running state
RunningUpdate ==
  /\ sp_pc = "running"
  /\ updates' = Append(updates, job_state_code(2))
  /\ db_state' = job_state_code(2)
  /\ sp_pc' = "stages"
  /\ UNCHANGED <<db_flag, fluxcal, fail_at, summary_ok, crash, ran, seen_state>>

\* line 119 and one call of the try block that returns
StageRuns ==
  /\ sp_pc = "stages"
  /\ Len(ran) < Len(Stages(fluxcal))
  /\ Len(ran) + 1 # fail_at
  /\ ran' = Append(ran, Stages(fluxcal)[Len(ran) + 1])
  /\ UNCHANGED <<db_flag, fluxcal, fail_at, summary_ok, db_state, sp_pc, crash, updates,
                 seen_state>>

StageRaisesUncaught ==
  /\ sp_pc = "stages"
  /\ Len(ran) < Len(Stages(fluxcal))
  /\ Len(ran) + 1 = fail_at
  /\ ran' = Append(ran, Stages(fluxcal)[Len(ran) + 1])
  /\ crash' = TRUE
  /\ sp_pc' = "done"
  /\ UNCHANGED <<db_flag, fluxcal, fail_at, summary_ok, db_state, updates, seen_state>>

\* one call of the try block that raises: lines 165-167
StageRaises ==
  /\ sp_pc = "stages"
  /\ Len(ran) < Len(Stages(fluxcal))
  /\ Len(ran) + 1 = fail_at
  /\ ran' = Append(ran, Stages(fluxcal)[Len(ran) + 1])
  /\ crash' = TRUE
  /\ sp_pc' = "final"
  /\ UNCHANGED <<db_flag, fluxcal, fail_at, summary_ok, db_state, updates, seen_state>>

\* the try block is left after its last call
StagesEnd ==
  /\ sp_pc = "stages"
  /\ Len(ran) = Len(Stages(fluxcal))
  /\ sp_pc' = "final"
  /\ UNCHANGED <<db_flag, fluxcal, fail_at, summary_ok, db_state, crash, ran, updates,
                 seen_state>>

\* lines 175-189
FinalJobState ==
  IF fluxcal THEN job_state_code(5)
  ELSE IF ~crash
    THEN (IF summary_ok THEN job_state_code(3) ELSE job_state_code(4))
    ELSE job_state_code(6)

\* lines 173-209
FinalUpdate ==
  /\ sp_pc = "final"
  /\ IF db_flag
       THEN /\ updates' = Append(updates, FinalJobState)
            /\ db_state' = FinalJobState
       ELSE UNCHANGED <<updates, db_state>>
  /\ sp_pc' = "done"
  /\ UNCHANGED <<db_flag, fluxcal, fail_at, summary_ok, crash, ran, seen_state>>

InitPipe == ArgFixed /\ GrIdle /\ RtIdle /\ StIdle /\ SpInit /\ RmIdle

NextPipe ==
  \/ (SpStart /\ UNCHANGED <<argVars, grVars, rtVars, stVars, rmVars>>)
  \/ (RunPipeFinishes /\ UNCHANGED <<argVars, grVars, rtVars, stVars, rmVars>>)
  \/ (Poll /\ UNCHANGED <<argVars, grVars, rtVars, stVars, rmVars>>)
  \/ (RunningUpdate /\ UNCHANGED <<argVars, grVars, rtVars, stVars, rmVars>>)
  \/ (StageRuns /\ UNCHANGED <<argVars, grVars, rtVars, stVars, rmVars>>)
  \/ (StageRaises /\ UNCHANGED <<argVars, grVars, rtVars, stVars, rmVars>>)
  \/ (StagesEnd /\ UNCHANGED <<argVars, grVars, rtVars, stVars, rmVars>>)
  \/ (FinalUpdate /\ UNCHANGED <<argVars, grVars, rtVars, stVars, rmVars>>)

SpecPipe == InitPipe /\ [][NextPipe]_vars

\* the state the claim gives for the final update of a run
ExpectedFinal ==
  IF fluxcal THEN 5
  ELSE IF fail_at # 0 THEN 6
  ELSE IF summary_ok THEN 3
  ELSE 4

\* C19: Final job state.  With db_flag, a run that has passed the pipeline
\* stages has made exactly one update after the running update, to state 5
\* if fluxcal, else 6 if a stage raised, 3 if none raised and check_summary
\* passes, 4 if it fails; a stage that raises is the last stage called; and
\* the running state 2 is written only after state 1 was read back.
C19_FinalJobState ==
  /\ (sp_pc = "done" /\ db_flag) =>
       updates = <<job_state_code(2), job_state_code(ExpectedFinal)>>
  /\ sp_pc \in {"final", "done"} =>
       ran = SubSeq(Stages(fluxcal), 1,
                    IF fail_at = 0 THEN Len(Stages(fluxcal)) ELSE fail_at)
  /\ (sp_pc \in {"stages", "final"} /\ db_flag) => updates = <<job_state_code(2)>>
  /\ (updates # <<>>) => seen_state = job_state_code(1)

\* a run in which calibrate_data raised and state 6 was written
C19_Witness ==
  /\ sp_pc = "done"
  /\ db_flag
  /\ ~fluxcal
  /\ fail_at = 2
  /\ ran = <<"add_archives", "calibrate_data">>
  /\ updates = <<job_state_code(2), job_state_code(6)>>

----------------------------------------------------------------------------
(* initialize.py get_outputinfo: the memory tier of each observation *)

MaxObs == 2

\* target_duration values in seconds, on and around each threshold
Durations == {0, 900, 901, 3600, 3601, 10800, 10801, 17999, 18000, 18001}

\* the observations met by the loops of lines 145-157, in order
RamInputs == UNION {[1..n -> Durations] : n \in 1..MaxObs}

RmInit ==
  /\ durations \in RamInputs
  /\ rm_i = 0
  /\ reqram = "unbound"
  /\ required_ram_list = <<>>
  /\ rm_pc = "loop"

\* lines 172-181: the value of reqram after the chain, r being its value before
RamChain(d, r) ==
  IF d <= 900 THEN "64g"
  ELSE IF d > 900 /\ d <= 3600 THEN "128g"
  ELSE IF d > 3600 /\ d <= 10800 THEN "256g"
  ELSE IF d > 10800 /\ d < 18000 THEN "512g"
  ELSE IF d > 18000 THEN "768g"
  ELSE r

\* lines 171-184 for one observation; reading an unbound reqram at
\* line 184 raises UnboundLocalError
ComputeRam ==
  /\ rm_pc = "loop"
  /\ rm_i < Len(durations)
  /\ reqram' = RamChain(durations[rm_i + 1], reqram)
  /\ IF reqram' = "unbound"
       THEN /\ rm_pc' = "raised"
            /\ UNCHANGED <<rm_i, required_ram_list>>
       ELSE /\ required_ram_list' = Append(required_ram_list, reqram')
            /\ rm_i' = rm_i + 1
            /\ rm_pc' = "loop"
  /\ UNCHANGED durations

\* line 186
RamReturn ==
  /\ rm_pc = "loop"
  /\ rm_i = Len(durations)
  /\ rm_pc' = "done"
  /\ UNCHANGED <<durations, rm_i, reqram, required_ram_list>>

InitRam == ArgFixed /\ GrIdle /\ RtIdle /\ StIdle /\ SpIdle /\ RmInit

NextRam ==
  \/ (ComputeRam /\ UNCHANGED <<argVars, grVars, rtVars, stVars, spVars>>)
  \/ (RamReturn /\ UNCHANGED <<argVars, grVars, rtVars, stVars, spVars>>)

SpecRam == InitRam /\ [][NextRam]_vars

\* the tiers the claim allows for a duration; five hours exactly lies on
\* the border of the last two
ClaimedTiers(d) ==
  IF d <= 900 THEN {"64g"}
  ELSE IF d <= 3600 THEN {"128g"}
  ELSE IF d <= 10800 THEN {"256g"}
  ELSE IF d < 18000 THEN {"512g"}
  ELSE IF d = 18000 THEN {"512g", "768g"}
  ELSE {"768g"}

\* C20: RAM tier is total and per-observation.  Every observation gets a
\* tier, and the tier appended for it is the one of its own duration.
C20_RamTierTotal ==
  /\ rm_pc # "raised"
  /\ \A k \in 1..Len(required_ram_list) :
       required_ram_list[k] \in ClaimedTiers(durations[k])

----------------------------------------------------------------------------
(* get_res_fromtim called with any file name and output directory *)

\* base names of the caller's tim file, with and without the token the
\* product names are derived from
TimNames == {<<"J0437", ".tim">>, <<"J0437", ".toa">>}
\* the directory of the tim file and the output directory; they may be the same
Dirs == {"obs", "out"}

ArgInit ==
  /\ tim_arg \in {Join(d, n) : d \in Dirs, n \in TimNames}
  /\ out_dir \in Dirs

\* the residual phases play no part in which files are written: the TOA
\* lines all carry phase 0 here
PlainInput ==
  /\ fake_phase = 0
  /\ \A i \in 1..Len(fs[tim_arg].lines) : fs[tim_arg].lines[i].ph = 0

InitFiles == ArgInit /\ GrInit /\ PlainInput /\ RtIdle /\ StIdle /\ SpIdle /\ RmIdle

SpecFiles == InitFiles /\ [][Next]_vars

\* C21: Input file is never touched.  For every tim file name and output
\* directory the copy, the intermediate file and the two output files have
\* five paths distinct from the input file and from each other; no step
\* changes or deletes the input file; and the only files a step deletes
\* are the intermediate file and the copy.
C21_InputNeverTouched ==
  /\ [](Cardinality(Paths) = 5)
  /\ [][fs'[tim_arg] = fs[tim_arg]]_vars
  /\ [][\A p \in Paths :
          (fs[p].exists /\ ~fs'[p].exists) => p \in {TempFile, NewTimFile}]_vars

====
